---------------------------- MODULE Spec2Model ----------------------------
(***************************************************************************)
(* Configuration resolution, validation and pricing of the bike shop       *)
(* (ProductConfigurationService) over the relational store it queries,     *)
(* with the cart and checkout of OrderService and the inventory            *)
(* operations of AdminService.                                             *)
(*                                                                         *)
(* The store is modelled table by table; every SQL statement of the        *)
(* service is an operator over those tables, and every method of the       *)
(* service is an action (validateConfiguration is split at its three       *)
(* gates, which is where it either returns or goes on querying; the        *)
(* methods of OrderService advance one store access at a time).            *)
(*                                                                         *)
(* Prices are exact rationals with denominator Scale: the amount p is held *)
(* as the integer p * Scale, so that a percentage adjustment               *)
(* price * (1 + pct / 100) is computed without loss.  The rounding of the  *)
(* JavaScript doubles is not modelled.                                     *)
(***************************************************************************)
EXTENDS Integers, Sequences, FiniteSets, TLC

\* ------------------------------------------------------------------------
\* Bounds of the model
\* ------------------------------------------------------------------------
MaxSelections == 2      \* longest selection list passed to an entry point
MaxQuantity   == 1      \* largest stock quantity of an inventory record
MaxRuleRows   == 1      \* most rows of RuleConditions
MaxRowCopies  == 1      \* most copies of one row of PricingRuleConditions

\* Identifiers of the fixture catalog: one product, two part types, three
\* part option ids.  The catalogs of validation hold the options of
\* ShortCatalogIds only, which leaves option 3 as an id without a row.
ProductIds    == {1}
PartTypeIds   == {1, 2}
PartOptionIds == {1, 2, 3}
ShortCatalogIds == {1, 2}
IncompatibilityRuleIds == {1, 2}
PricingRuleIds == {1, 2}

\* Denominator of the fixed-point prices (100 for each of the two pricing
\* rules, which may both be percentages).
Scale == 100 * 100

\* ------------------------------------------------------------------------
\* Helpers
\* ------------------------------------------------------------------------
Range(s) == {s[i] : i \in DOMAIN s}

SeqsUpTo(S, n) == UNION {[1 .. k -> S] : k \in 0 .. n}

RECURSIVE SortedSeq(_)
SortedSeq(S) ==
  IF S = {} THEN <<>>
  ELSE LET m == CHOOSE x \in S : \A y \in S : x <= y
       IN  <<m>> \o SortedSeq(S \ {m})

\* ------------------------------------------------------------------------
\* State: the tables of the store, and the call in progress
\* ------------------------------------------------------------------------
VARIABLES
  products,              \* Products: id -> [base_price]
  partTypes,             \* PartTypes: id -> [name, required]
  productPartTypes,      \* ProductPartTypes: set of <<product_id, part_type_id>>
  partOptions,           \* PartOptions: id -> [part_type_id, base_price, active]
  inventory,             \* Inventory: part_option_id -> sequence of rows (0 or 1)
  incompatibilityRules,  \* IncompatibilityRules: id -> [active]
  ruleConditions,        \* RuleConditions: set of <<rule_id, part_option_id, incompatible_with>>
  pricingRules,          \* PricingRules: id -> [price_adjustment, is_percentage, active]
  pricingRuleConditions, \* PricingRuleConditions: <<pricing_rule_id, part_option_id>> -> copies
  pc,                    \* position of the call in progress
  call,                  \* the entry point called and its arguments
  queries,               \* the store accesses the call has made, in order
  missingPartTypes,      \* local of validateConfiguration
  incompatibilities,     \* local of validateConfiguration
  unavailableOptions,    \* local of validateConfiguration
  result,                \* the value the call returned
  previous,              \* what the caller holds of the call it made before
  orders,                \* Orders: sequence of rows, the id is the position
  orderItems,            \* OrderItems: sequence of rows, the id is the position
  orderItemConfiguration,\* OrderItemConfiguration: sequence of rows
  session                \* the OrderService call in progress of each customer

store == <<products, partTypes, productPartTypes, partOptions, inventory,
           incompatibilityRules, ruleConditions, pricingRules,
           pricingRuleConditions>>
orderStore == <<orders, orderItems, orderItemConfiguration>>
locals == <<missingPartTypes, incompatibilities, unavailableOptions>>
vars == <<store, orderStore, pc, call, queries, locals, result, previous, session>>

NoCall == [op |-> "none"]
NoResult == [none |-> TRUE]
NoPrevious == [none |-> TRUE]

\* the customers, each with one OrderService call in progress at most
Sessions == {1, 2}
IdleSession == [op |-> "none", pc |-> "idle"]

\* ------------------------------------------------------------------------
\* Fixture catalog
\* ------------------------------------------------------------------------
PartTypeName(t) == IF t = 1 THEN "Frame" ELSE "Wheels"

\* options 1 and 3 are frames, option 2 is a wheel set
PartTypeOfOption(o) == ((o - 1) % 2) + 1

FixtureProducts == [p \in ProductIds |-> [base_price |-> 100 * Scale]]

FixturePartTypes == [t \in PartTypeIds |-> [name |-> PartTypeName(t), required |-> TRUE]]

FixtureProductPartTypes == ProductIds \X PartTypeIds

FixturePartOptions ==
  [o \in PartOptionIds |->
     [part_type_id |-> PartTypeOfOption(o),
      base_price   |-> (10 + 10 * o) * Scale,
      active       |-> TRUE]]

InventoryRow(q, s) == [quantity |-> q, in_stock |-> s]

FixtureInventory == [o \in PartOptionIds |-> <<InventoryRow(1, TRUE)>>]

FixtureIncompatibilityRules ==
  [r \in IncompatibilityRuleIds |-> [active |-> (r = 1)]]

FixturePricingRules ==
  [r \in PricingRuleIds |->
     [price_adjustment |-> 10, is_percentage |-> (r = 2), active |-> TRUE]]

NoPricingRuleConditions == [c \in PricingRuleIds \X PartOptionIds |-> 0]

\* ------------------------------------------------------------------------
\* Queries of validateConfiguration
\* ------------------------------------------------------------------------

\* faulty variant: the required part types of the whole catalog, the join
\* with ProductPartTypes left out
requiredPartTypes_noJoin(productId) ==
  SortedSeq({t \in DOMAIN partTypes : partTypes[t].required})

\* SELECT pt.id, pt.name FROM PartTypes pt JOIN ProductPartTypes ppt ...
\* WHERE ppt.product_id = ? AND pt.required = TRUE
requiredPartTypes(productId) ==
  SortedSeq({t \in DOMAIN partTypes :
               <<productId, t>> \in productPartTypes /\ partTypes[t].required})

\* SELECT part_type_id FROM PartOptions WHERE id = ?   (for each selection)
selectedPartTypes(selectedOptions) ==
  {partOptions[o].part_type_id : o \in Range(selectedOptions) \cap DOMAIN partOptions}

\* requiredPartTypes.filter((partType) => !selectedPartTypes.has(partType.id))
MissingPartTypes(productId, selectedOptions) ==
  SelectSeq(requiredPartTypes(productId),
            LAMBDA t : t \notin selectedPartTypes(selectedOptions))

\* SELECT 1 FROM RuleConditions rc JOIN IncompatibilityRules ir ON rc.rule_id = ir.id
\* WHERE (rc.part_option_id = A AND rc.incompatible_with_part_option_id = B)
\*    OR (rc.part_option_id = B AND rc.incompatible_with_part_option_id = A)
\*   AND ir.active = TRUE
\* AND binds tighter than OR in SQL: the active test guards the second
\* disjunct only.
conflict(optionA, optionB) ==
  \E rc \in ruleConditions :
     /\ rc[1] \in DOMAIN incompatibilityRules
     /\ \/ (rc[2] = optionA /\ rc[3] = optionB)
        \/ ((rc[2] = optionB /\ rc[3] = optionA) /\ incompatibilityRules[rc[1]].active)

\* the pairs <<i, j>>, i < j, in the order of the two nested loops
RECURSIVE IndexPairs(_, _)
IndexPairs(i, n) ==
  IF i >= n THEN <<>>
  ELSE [k \in 1 .. (n - i) |-> <<i, i + k>>] \o IndexPairs(i + 1, n)

Incompatibilities(selectedOptions) ==
  LET pairs == IndexPairs(1, Len(selectedOptions))
      hit   == SelectSeq(pairs, LAMBDA p : conflict(selectedOptions[p[1]], selectedOptions[p[2]]))
  IN  [k \in 1 .. Len(hit) |->
         [optionA |-> selectedOptions[hit[k][1]], optionB |-> selectedOptions[hit[k][2]]]]

\* faulty variant: the in_stock flag alone decides
Unavailable_flagOnly(o) ==
  \/ Len(inventory[o]) = 0
  \/ ~inventory[o][1].in_stock

\* !inventory.length || !inventory[0].in_stock || inventory[0].quantity <= 0
Unavailable(o) ==
  \/ Len(inventory[o]) = 0
  \/ ~inventory[o][1].in_stock
  \/ inventory[o][1].quantity <= 0

UnavailableOptions(selectedOptions) == SelectSeq(selectedOptions, Unavailable)

\* ------------------------------------------------------------------------
\* validateConfiguration, one action per gate
\* ------------------------------------------------------------------------
Callable == pc = "idle"

\* first gate: the required part types of the product, the part type of each
\* selected option, and the return on a missing one
validateConfiguration(productId, selectedOptions) ==
  /\ Callable
  /\ call' = [op |-> "validateConfiguration", productId |-> productId,
              selectedOptions |-> selectedOptions]
  /\ queries' = <<"requiredPartTypes">> \o [i \in 1 .. Len(selectedOptions) |-> "partOption"]
  /\ missingPartTypes' = MissingPartTypes(productId, selectedOptions)
  /\ incompatibilities' = <<>>
  /\ unavailableOptions' = <<>>
  /\ IF Len(missingPartTypes') > 0
       THEN /\ result' = [valid |-> FALSE,
                          message |-> "Missing required selections",
                          names |-> [k \in 1 .. Len(missingPartTypes') |->
                                       partTypes[missingPartTypes'[k]].name]]
            /\ pc' = "done"
       ELSE /\ result' = NoResult
            /\ pc' = "compatibility"
  /\ UNCHANGED <<store, orderStore, previous, session>>

\* faulty variant: the second gate records the conflicts and goes on to the
\* third gate without returning
validateConfiguration_compatibility_noReturn ==
  /\ pc = "compatibility"
  /\ queries' = queries \o [k \in 1 .. Len(IndexPairs(1, Len(call.selectedOptions))) |-> "conflict"]
  /\ incompatibilities' = Incompatibilities(call.selectedOptions)
  /\ result' = NoResult
  /\ pc' = "availability"
  /\ UNCHANGED <<store, orderStore, previous, session, call, missingPartTypes, unavailableOptions>>

\* second gate: one conflict query for each pair of selections
validateConfiguration_compatibility ==
  /\ pc = "compatibility"
  /\ queries' = queries \o [k \in 1 .. Len(IndexPairs(1, Len(call.selectedOptions))) |-> "conflict"]
  /\ incompatibilities' = Incompatibilities(call.selectedOptions)
  /\ IF Len(incompatibilities') > 0
       THEN /\ result' = [valid |-> FALSE,
                          message |-> "Selected options contain incompatible combinations",
                          incompatibilities |-> incompatibilities']
            /\ pc' = "done"
       ELSE /\ result' = NoResult
            /\ pc' = "availability"
  /\ UNCHANGED <<store, orderStore, previous, session, call, missingPartTypes, unavailableOptions>>

\* faulty variant: the list of unavailable options is kept from one call to
\* the next instead of starting empty
validateConfiguration_availability_keptList ==
  /\ pc = "availability"
  /\ queries' = queries \o [i \in 1 .. Len(call.selectedOptions) |-> "inventory"]
  /\ unavailableOptions' =
        (IF previous # NoPrevious /\ "unavailableOptions" \in DOMAIN previous.result
           THEN previous.result.unavailableOptions ELSE <<>>)
        \o UnavailableOptions(call.selectedOptions)
  /\ IF Len(unavailableOptions') > 0
       THEN result' = [valid |-> FALSE,
                       message |-> "Some selected options are out of stock",
                       unavailableOptions |-> unavailableOptions']
       ELSE result' = [valid |-> TRUE, message |-> "Configuration is valid"]
  /\ pc' = "done"
  /\ UNCHANGED <<store, orderStore, previous, session, call, missingPartTypes, incompatibilities>>

\* third gate: one inventory query for each selection
validateConfiguration_availability ==
  /\ pc = "availability"
  /\ queries' = queries \o [i \in 1 .. Len(call.selectedOptions) |-> "inventory"]
  /\ unavailableOptions' = UnavailableOptions(call.selectedOptions)
  /\ IF Len(unavailableOptions') > 0
       THEN result' = [valid |-> FALSE,
                       message |-> "Some selected options are out of stock",
                       unavailableOptions |-> unavailableOptions']
       ELSE result' = [valid |-> TRUE, message |-> "Configuration is valid"]
  /\ pc' = "done"
  /\ UNCHANGED <<store, orderStore, previous, session, call, missingPartTypes, incompatibilities>>

\* ------------------------------------------------------------------------
\* Resolution: filterIncompatibleOptions, addInventoryStatus
\* ------------------------------------------------------------------------

\* SELECT * FROM PartOptions WHERE part_type_id = ? AND active = TRUE
optionRow(o) == [id |-> o] @@ partOptions[o]

optionRows(ids) == [k \in 1 .. Len(ids) |-> optionRow(ids[k])]

optionsOfPartType(partTypeId) ==
  optionRows(SortedSeq({o \in DOMAIN partOptions :
                          partOptions[o].part_type_id = partTypeId /\ partOptions[o].active}))

idsOf(options) == {options[k].id : k \in DOMAIN options}

\* faulty variant: the rows are matched against the first selection only
conflicts_firstSelection(options, currentSelections) ==
  {rc \in ruleConditions :
     /\ rc[1] \in DOMAIN incompatibilityRules
     /\ rc[2] \in idsOf(options)
     /\ rc[3] = currentSelections[1]
     /\ incompatibilityRules[rc[1]].active}

\* SELECT rc.part_option_id, rc.incompatible_with_part_option_id
\* FROM RuleConditions rc JOIN IncompatibilityRules ir ON rc.rule_id = ir.id
\* WHERE rc.part_option_id IN (options) AND
\*       rc.incompatible_with_part_option_id IN (selections) AND ir.active = TRUE
conflicts(options, currentSelections) ==
  {rc \in ruleConditions :
     /\ rc[1] \in DOMAIN incompatibilityRules
     /\ rc[2] \in idsOf(options)
     /\ rc[3] \in Range(currentSelections)
     /\ incompatibilityRules[rc[1]].active}

filterIncompatibleOptions(options, currentSelections) ==
  IF Len(currentSelections) = 0 \/ Len(options) = 0
    THEN options
    ELSE LET incompatibleOptionIds == {rc[2] : rc \in conflicts(options, currentSelections)}
         IN  SelectSeq(options, LAMBDA o : o.id \notin incompatibleOptionIds)

\* faulty variant: the conflicts are queried whatever the two lists hold
filterIncompatibleOptionsQueries_noEarlyReturn(options, currentSelections) ==
  <<"conflicts">>

\* no store access on the early return, the one conflicts query otherwise
filterIncompatibleOptionsQueries(options, currentSelections) ==
  IF Len(currentSelections) = 0 \/ Len(options) = 0 THEN <<>> ELSE <<"conflicts">>

\* faulty variant: an option without a record is given as in stock
inventoryStatus_defaultInStock(o) ==
  IF Len(inventory[o]) > 0
    THEN inventory[o][Len(inventory[o])]
    ELSE InventoryRow(0, TRUE)

\* inventoryMap[option.id] || { in_stock: false, quantity: 0 }
inventoryStatus(o) ==
  IF Len(inventory[o]) > 0
    THEN inventory[o][Len(inventory[o])]
    ELSE InventoryRow(0, FALSE)

addInventoryStatus(options) ==
  [k \in 1 .. Len(options) |->
     [inventory |-> inventoryStatus(options[k].id)] @@ options[k]]

addInventoryStatusQueries(options) ==
  IF Len(options) = 0 THEN <<>> ELSE <<"inventory">>

\* ------------------------------------------------------------------------
\* Pricing: getPriceAdjustments, calculateOptionPrices, calculateTotalPrice
\* ------------------------------------------------------------------------
\* the sum of f[x] over the x of S
RECURSIVE SumOver(_, _)
SumOver(S, f) ==
  IF S = {} THEN 0
  ELSE LET x == CHOOSE y \in S : TRUE IN f[x] + SumOver(S \ {x}, f)

\* the rows of PricingRuleConditions of rule r that the WHERE clause keeps
matchedRows(r, selectionIds) ==
  SumOver(PartOptionIds \cap Range(selectionIds),
          [o \in PartOptionIds |-> pricingRuleConditions[<<r, o>>]])

matchedDistinct(r, selectionIds) ==
  Cardinality({o \in PartOptionIds \cap Range(selectionIds) :
                 pricingRuleConditions[<<r, o>>] > 0})

\* SELECT pr.id, pr.name, pr.price_adjustment, pr.is_percentage
\* FROM PricingRules pr JOIN PricingRuleConditions prc ON pr.id = prc.pricing_rule_id
\* WHERE pr.active = TRUE AND prc.part_option_id IN (selectionIds)
\* GROUP BY pr.id HAVING COUNT(DISTINCT prc.part_option_id) = COUNT(*)
pricingRulesQuery(selectionIds) ==
  LET ids == {r \in DOMAIN pricingRules :
                /\ pricingRules[r].active
                /\ matchedRows(r, selectionIds) > 0
                /\ matchedDistinct(r, selectionIds) = matchedRows(r, selectionIds)}
      order == SortedSeq(ids)
  IN  [k \in 1 .. Len(order) |->
         [id |-> order[k],
          price_adjustment |-> pricingRules[order[k]].price_adjustment,
          is_percentage |-> pricingRules[order[k]].is_percentage]]

\* faulty variant: the rules are queried for a selection of any length
getPriceAdjustments_noGuard(productId, selections) ==
  pricingRulesQuery(selections)

\* if (selections.length <= 1) return []; otherwise the rows of the query
getPriceAdjustments(productId, selections) ==
  IF Len(selections) <= 1 THEN <<>> ELSE pricingRulesQuery(selections)

getPriceAdjustmentsQueries(selections) ==
  IF Len(selections) <= 1 THEN <<>> ELSE <<"pricingRules">>

\* price * (1 + adjustment.price_adjustment / 100), or price + adjustment.price_adjustment
applyAdjustment(price, adjustment) ==
  IF adjustment.is_percentage
    THEN (price * (100 + adjustment.price_adjustment)) \div 100
    ELSE price + adjustment.price_adjustment * Scale

\* faulty variant: every adjustment is computed on the starting price and
\* the adjustments are added up
applyAdjustments_onBase(adjustments, price) ==
  price + SumOver(DOMAIN adjustments,
                  [k \in DOMAIN adjustments |->
                     applyAdjustment(price, adjustments[k]) - price])

\* adjustments.reduce(..., start) and adjustments.forEach(...)
RECURSIVE applyAdjustments(_, _)
applyAdjustments(adjustments, price) ==
  IF Len(adjustments) = 0 THEN price
  ELSE applyAdjustments(Tail(adjustments), applyAdjustment(price, Head(adjustments)))

calculateOptionPrice(option, productId, currentSelections) ==
  LET basePrice   == option.base_price
      adjustments == getPriceAdjustments(productId, Append(currentSelections, option.id))
  IN  [basePrice |-> basePrice,
       finalPrice |-> applyAdjustments(adjustments, basePrice),
       priceAdjustments |-> adjustments] @@ option

calculateOptionPrices(options, productId, currentSelections) ==
  [k \in 1 .. Len(options) |-> calculateOptionPrice(options[k], productId, currentSelections)]

calculateOptionPricesQueries(options, currentSelections) ==
  IF Len(currentSelections) = 0 THEN <<>> ELSE [k \in 1 .. Len(options) |-> "pricingRules"]

\* SELECT id, base_price FROM PartOptions WHERE id IN (optionIds)
optionPrices(ids) == {o \in DOMAIN partOptions : o \in Range(ids)}

totalPrice(productId, selectedOptions) ==
  LET basePrice      == products[productId].base_price
      optionPriceSum == SumOver(optionPrices(selectedOptions),
                                [o \in DOMAIN partOptions |-> partOptions[o].base_price])
      adjustments    == getPriceAdjustments(productId, selectedOptions)
  IN  [basePrice |-> basePrice,
       optionPriceSum |-> optionPriceSum,
       adjustments |-> adjustments,
       totalPrice |-> applyAdjustments(adjustments, basePrice + optionPriceSum)]

\* ------------------------------------------------------------------------
\* The entry points that return in one step
\* ------------------------------------------------------------------------
\* faulty variant: the entry point marks every inventory record as out of
\* stock before it returns
Returns_writing(c, q, r) ==
  /\ Callable
  /\ call' = c
  /\ queries' = q
  /\ result' = r
  /\ pc' = "done"
  /\ inventory' = [o \in DOMAIN inventory |->
                     [k \in DOMAIN inventory[o] |->
                        [inventory[o][k] EXCEPT !.in_stock = FALSE]]]
  /\ UNCHANGED <<products, partTypes, productPartTypes, partOptions,
                 incompatibilityRules, ruleConditions, pricingRules,
                 pricingRuleConditions>>
  /\ UNCHANGED <<orderStore, previous, session, locals>>

\* the call makes the store accesses q, all of them reads, and returns r
Returns(c, q, r) ==
  /\ Callable
  /\ call' = c
  /\ queries' = q
  /\ result' = r
  /\ pc' = "done"
  /\ UNCHANGED <<store, orderStore, previous, session, locals>>

getAvailableOptions(productId, partTypeId, currentSelections) ==
  LET options              == optionsOfPartType(partTypeId)
      compatibleOptions    == filterIncompatibleOptions(options, currentSelections)
      optionsWithInventory == addInventoryStatus(compatibleOptions)
  IN  Returns([op |-> "getAvailableOptions", productId |-> productId,
               partTypeId |-> partTypeId, currentSelections |-> currentSelections],
              <<"partOptions">>
                \o filterIncompatibleOptionsQueries(options, currentSelections)
                \o addInventoryStatusQueries(compatibleOptions)
                \o calculateOptionPricesQueries(optionsWithInventory, currentSelections),
              calculateOptionPrices(optionsWithInventory, productId, currentSelections))

call_filterIncompatibleOptions(options, currentSelections) ==
  Returns([op |-> "filterIncompatibleOptions", options |-> options,
           currentSelections |-> currentSelections],
          filterIncompatibleOptionsQueries(options, currentSelections),
          filterIncompatibleOptions(options, currentSelections))

call_addInventoryStatus(options) ==
  Returns([op |-> "addInventoryStatus", options |-> options],
          addInventoryStatusQueries(options),
          addInventoryStatus(options))

call_getPriceAdjustments(productId, selections) ==
  Returns([op |-> "getPriceAdjustments", productId |-> productId, selections |-> selections],
          getPriceAdjustmentsQueries(selections),
          getPriceAdjustments(productId, selections))

call_calculateOptionPrices(options, productId, currentSelections) ==
  Returns([op |-> "calculateOptionPrices", options |-> options, productId |-> productId,
           currentSelections |-> currentSelections],
          calculateOptionPricesQueries(options, currentSelections),
          calculateOptionPrices(options, productId, currentSelections))

calculateTotalPrice(productId, selectedOptions) ==
  Returns([op |-> "calculateTotalPrice", productId |-> productId,
           selectedOptions |-> selectedOptions],
          <<"product", "optionPrices">> \o getPriceAdjustmentsQueries(selectedOptions),
          totalPrice(productId, selectedOptions))

\* ------------------------------------------------------------------------
\* What the design says of a selection, stated over the tables
\* ------------------------------------------------------------------------
ValidateDone == pc = "done" /\ call.op = "validateConfiguration"

\* the required part types of the product
RequiredOf(productId) ==
  {t \in PartTypeIds : partTypes[t].required /\ <<productId, t>> \in productPartTypes}

\* the selected options of part type t, by position in the selection
SelectedOfType(selectedOptions, t) ==
  {i \in DOMAIN selectedOptions :
     /\ selectedOptions[i] \in DOMAIN partOptions
     /\ partOptions[selectedOptions[i]].part_type_id = t}

MissingOf(productId, selectedOptions) ==
  {t \in RequiredOf(productId) : SelectedOfType(selectedOptions, t) = {}}

ActiveEdge(a, b) ==
  \E rc \in ruleConditions :
     rc[2] = a /\ rc[3] = b /\ incompatibilityRules[rc[1]].active

IncompatiblePair(a, b) == ActiveEdge(a, b) \/ ActiveEdge(b, a)

OffendingPairs(selectedOptions) ==
  {p \in (DOMAIN selectedOptions) \X (DOMAIN selectedOptions) :
     p[1] < p[2] /\ IncompatiblePair(selectedOptions[p[1]], selectedOptions[p[2]])}

OutOfStock(o) ==
  \A k \in DOMAIN inventory[o] :
     ~(inventory[o][k].in_stock /\ inventory[o][k].quantity > 0)

IsMissingRequired == result.message = "Missing required selections"
IsIncompatible == result.message = "Selected options contain incompatible combinations"
IsOutOfStock == result.message = "Some selected options are out of stock"
IsValid == result.message = "Configuration is valid"

\* ------------------------------------------------------------------------
\* C3: the gates run in the order completeness, compatibility, availability
\* and the first failure ends the call: a missing required part type gives
\* the missing-required result even with an incompatible pair or an
\* out-of-stock option in the selection, an incompatible pair (nothing
\* missing) gives the incompatible-combination result even with an
\* out-of-stock option, and no query of a later gate follows a failed gate.
\* ------------------------------------------------------------------------
GateOrder ==
  ValidateDone =>
    LET sel == call.selectedOptions
        p   == call.productId
    IN  /\ MissingOf(p, sel) # {} =>
             /\ IsMissingRequired
             /\ "conflict" \notin Range(queries)
             /\ "inventory" \notin Range(queries)
        /\ (MissingOf(p, sel) = {} /\ OffendingPairs(sel) # {}) =>
             /\ IsIncompatible
             /\ "inventory" \notin Range(queries)
        /\ IsMissingRequired => Range(queries) \subseteq {"requiredPartTypes", "partOption"}
        /\ IsIncompatible => "inventory" \notin Range(queries)

GateOrderWitness ==
  /\ ValidateDone
  /\ MissingOf(call.productId, call.selectedOptions) # {}
  /\ OffendingPairs(call.selectedOptions) # {}
  /\ \E i \in DOMAIN call.selectedOptions : OutOfStock(call.selectedOptions[i])
  /\ IsMissingRequired

\* ------------------------------------------------------------------------
\* C4: a valid result means every required part type of the product has
\* exactly one selected option
\* ------------------------------------------------------------------------
\* (stated for the selections that name no option twice)
ExactlyOnePerRequiredType ==
  (/\ ValidateDone
   /\ result.valid
   /\ Cardinality(Range(call.selectedOptions)) = Len(call.selectedOptions)) =>
    \A t \in RequiredOf(call.productId) :
       Cardinality(SelectedOfType(call.selectedOptions, t)) = 1

\* ------------------------------------------------------------------------
\* C5: when a required part type of the product has no selected option the
\* result is missing-required and names exactly the part types missing.
\* ------------------------------------------------------------------------
MissingRequiredExact ==
  ValidateDone =>
    LET missing == MissingOf(call.productId, call.selectedOptions)
    IN  missing # {} =>
          /\ ~result.valid
          /\ IsMissingRequired
          /\ Len(result.names) = Cardinality(missing)
          /\ Range(result.names) = {partTypes[t].name : t \in missing}

MissingRequiredWitness ==
  /\ ValidateDone
  /\ IsMissingRequired
  /\ Len(call.selectedOptions) = MaxSelections
  /\ Cardinality(RequiredOf(call.productId)) > Len(result.names)

\* ------------------------------------------------------------------------
\* C6: with completeness passed, the result is incompatible-combination
\* exactly when some pair of selections has an active edge in one of the two
\* directions, and the pairs reported are exactly those pairs.
\* ------------------------------------------------------------------------
CompatibilityGateExact ==
  (ValidateDone /\ ~IsMissingRequired) =>
    LET sel == call.selectedOptions
    IN  /\ IsIncompatible <=> OffendingPairs(sel) # {}
        /\ IsIncompatible =>
             Range(result.incompatibilities) =
               {[optionA |-> sel[p[1]], optionB |-> sel[p[2]]] : p \in OffendingPairs(sel)}

\* ------------------------------------------------------------------------
\* C7: once the completeness and the compatibility gate have passed, the
\* result is out-of-stock exactly when a selected option has no inventory
\* record, or one with in_stock false or quantity <= 0, and the list is
\* exactly those selected options; an option with quantity 0 never gives a
\* valid result.
\* ------------------------------------------------------------------------
AvailabilityGateExact ==
  ValidateDone =>
    LET sel == call.selectedOptions
        out == {i \in DOMAIN sel : OutOfStock(sel[i])}
    IN  /\ (Len(missingPartTypes) = 0 /\ Len(incompatibilities) = 0) =>
             /\ IsOutOfStock <=> out # {}
             /\ IsOutOfStock =>
                  /\ ~result.valid
                  /\ result.unavailableOptions = SelectSeq(sel, OutOfStock)
        /\ (\E i \in DOMAIN sel :
              inventory[sel[i]] # <<>> /\ inventory[sel[i]][1].quantity = 0) => ~result.valid

AvailabilityGateWitness ==
  /\ ValidateDone
  /\ IsOutOfStock
  /\ \E i \in DOMAIN call.selectedOptions :
        /\ inventory[call.selectedOptions[i]] # <<>>
        /\ inventory[call.selectedOptions[i]][1].in_stock
        /\ inventory[call.selectedOptions[i]][1].quantity = 0
  /\ \E i \in DOMAIN call.selectedOptions : ~OutOfStock(call.selectedOptions[i])

\* ------------------------------------------------------------------------
\* C8: the result is valid exactly when every required part type is
\* covered, no pair of selections is incompatible and every selection is in
\* stock; it is always one of the four results.
\* ------------------------------------------------------------------------
ValidIffAllGatesPass ==
  ValidateDone =>
    LET sel == call.selectedOptions
    IN  /\ result.valid <=>
             /\ MissingOf(call.productId, sel) = {}
             /\ OffendingPairs(sel) = {}
             /\ \A i \in DOMAIN sel : ~OutOfStock(sel[i])
        /\ Cardinality({b \in {IsValid, IsMissingRequired, IsIncompatible, IsOutOfStock} : b}) = 1
        /\ result.valid <=> IsValid

\* ------------------------------------------------------------------------
\* Specification of validation: every catalog of the bounds, any calls
\* ------------------------------------------------------------------------
InventoryRows ==
  {<<>>} \cup {<<InventoryRow(q, s)>> : q \in 0 .. MaxQuantity, s \in BOOLEAN}

RuleConditionRows(ids) == {rc \in IncompatibilityRuleIds \X ids \X ids : rc[2] # rc[3]}

InitCall ==
  /\ pc = "idle"
  /\ call = NoCall
  /\ queries = <<>>
  /\ missingPartTypes = <<>>
  /\ incompatibilities = <<>>
  /\ unavailableOptions = <<>>
  /\ result = NoResult
  /\ previous = NoPrevious

\* no order placed, no OrderService call in progress
NoOrders ==
  /\ orders = <<>>
  /\ orderItems = <<>>
  /\ orderItemConfiguration = <<>>
  /\ session = [s \in Sessions |-> IdleSession]

InitValidate ==
  /\ products = FixtureProducts
  /\ partTypes \in {pt \in [PartTypeIds -> [name : {"Frame", "Wheels"}, required : BOOLEAN]] :
                      \A t \in PartTypeIds : pt[t].name = PartTypeName(t)}
  /\ productPartTypes \in {ProductIds \X PartTypeIds, ProductIds \X {1}}
  /\ partOptions \in {[o \in ShortCatalogIds |->
                         [FixturePartOptions[o] EXCEPT !.part_type_id = IF o = 1 THEN 1 ELSE t]] :
                        t \in PartTypeIds}
  /\ inventory \in {inv \in [PartOptionIds -> InventoryRows] :
                      \A o \in PartOptionIds \ ShortCatalogIds : inv[o] = <<>>}
  /\ incompatibilityRules = FixtureIncompatibilityRules
  /\ ruleConditions \in SUBSET RuleConditionRows(ShortCatalogIds)
  /\ pricingRules = FixturePricingRules
  /\ pricingRuleConditions = NoPricingRuleConditions
  /\ InitCall
  /\ NoOrders

NextValidate ==
  \/ \E p \in ProductIds, sel \in SeqsUpTo(PartOptionIds, MaxSelections) :
        validateConfiguration(p, sel)
  \/ validateConfiguration_compatibility
  \/ validateConfiguration_availability

SpecValidate == InitValidate /\ [][NextValidate]_vars

\* ------------------------------------------------------------------------
\* Specification of resolution: every rule set of the bounds, any calls
\* ------------------------------------------------------------------------
\* rule 1 is conditioned on options 1 and 2, rule 2 on options 2 and 3
FixturePricingRuleConditions ==
  [c \in PricingRuleIds \X PartOptionIds |-> IF c[2] \in {c[1], c[1] + 1} THEN 1 ELSE 0]

MixedInventory ==
  [o \in PartOptionIds |->
     IF o = 1 THEN <<InventoryRow(1, TRUE)>>
     ELSE IF o = 3 THEN <<InventoryRow(0, FALSE)>>
     ELSE <<>>]

CandidateLists == {optionRows(SortedSeq(S)) : S \in SUBSET PartOptionIds}

InitResolve ==
  /\ products = FixtureProducts
  /\ partTypes = FixturePartTypes
  /\ productPartTypes = FixtureProductPartTypes
  /\ partOptions \in {po \in [PartOptionIds ->
                               [part_type_id : PartTypeIds,
                                base_price : {FixturePartOptions[o].base_price : o \in PartOptionIds},
                                active : BOOLEAN]] :
                        \A o \in PartOptionIds :
                           /\ po[o].part_type_id = FixturePartOptions[o].part_type_id
                           /\ po[o].base_price = FixturePartOptions[o].base_price}
  /\ inventory = MixedInventory
  /\ incompatibilityRules = FixtureIncompatibilityRules
  /\ ruleConditions \in {rows \in SUBSET RuleConditionRows(PartOptionIds) :
                           Cardinality(rows) <= MaxRuleRows}
  /\ pricingRules = FixturePricingRules
  /\ pricingRuleConditions = FixturePricingRuleConditions
  /\ InitCall
  /\ NoOrders

NextResolve ==
  \/ \E options \in CandidateLists, sel \in SeqsUpTo(PartOptionIds, MaxSelections) :
        call_filterIncompatibleOptions(options, sel)
  \/ \E p \in ProductIds, t \in PartTypeIds, sel \in SeqsUpTo(PartOptionIds, MaxSelections) :
        getAvailableOptions(p, t, sel)
  \/ \E options \in CandidateLists : call_addInventoryStatus(options)

SpecResolve == InitResolve /\ [][NextResolve]_vars

\* ------------------------------------------------------------------------
\* C1: for every active edge (A, B) of RuleConditions, resolving with {A}
\* selected does not return B and resolving with {B} selected does not
\* return A, whichever of the two the row stores first.
\* ------------------------------------------------------------------------
ResolveDone == pc = "done" /\ call.op \in {"filterIncompatibleOptions", "getAvailableOptions"}

Candidates ==
  IF call.op = "filterIncompatibleOptions"
    THEN idsOf(call.options)
    ELSE idsOf(optionsOfPartType(call.partTypeId))

SymmetricExclusion ==
  ResolveDone =>
    \A rc \in ruleConditions :
       incompatibilityRules[rc[1]].active =>
         /\ (call.currentSelections = <<rc[2]>> /\ rc[3] \in Candidates)
              => rc[3] \notin idsOf(result)
         /\ (call.currentSelections = <<rc[3]>> /\ rc[2] \in Candidates)
              => rc[2] \notin idsOf(result)

\* ------------------------------------------------------------------------
\* Specification of pricing: every pricing rule set of the bounds, any calls
\* ------------------------------------------------------------------------
InitPrice ==
  /\ products = FixtureProducts
  /\ partTypes = FixturePartTypes
  /\ productPartTypes = FixtureProductPartTypes
  /\ partOptions = FixturePartOptions
  /\ inventory = FixtureInventory
  /\ incompatibilityRules = FixtureIncompatibilityRules
  /\ ruleConditions = {}
  /\ pricingRules \in [PricingRuleIds ->
                         [price_adjustment : {10}, is_percentage : BOOLEAN, active : BOOLEAN]]
  /\ pricingRuleConditions \in
        {c \in [PricingRuleIds \X PartOptionIds -> 0 .. MaxRowCopies] :
           \A rc \in DOMAIN c : c[rc] <= MaxRowCopies * FixturePricingRuleConditions[rc]}
  /\ InitCall
  /\ NoOrders

NextPrice ==
  \/ \E p \in ProductIds, sel \in SeqsUpTo(PartOptionIds, MaxSelections) :
        call_getPriceAdjustments(p, sel)
  \/ \E p \in ProductIds, t \in PartTypeIds, sel \in SeqsUpTo(PartOptionIds, MaxSelections - 1) :
        call_calculateOptionPrices(optionsOfPartType(t), p, sel)
  \/ \E p \in ProductIds, sel \in SeqsUpTo(PartOptionIds, MaxSelections) :
        calculateTotalPrice(p, sel)
  \/ \E p \in ProductIds, t \in PartTypeIds, sel \in SeqsUpTo(PartOptionIds, MaxSelections - 1) :
        getAvailableOptions(p, t, sel)

SpecPrice == InitPrice /\ [][NextPrice]_vars

\* the condition set of a pricing rule
ConditionSet(r) == {o \in PartOptionIds : pricingRuleConditions[<<r, o>>] > 0}

\* ------------------------------------------------------------------------
\* C2: for a selection of two options or more, getPriceAdjustments returns
\* an active pricing rule exactly when every option of its condition set is
\* selected (stated here for the rules that have a condition at all).
\* ------------------------------------------------------------------------
AndSemantics ==
  (pc = "done" /\ call.op = "getPriceAdjustments" /\ Len(call.selections) >= 2) =>
    \A r \in PricingRuleIds :
       (pricingRules[r].active /\ ConditionSet(r) # {}) =>
          (r \in idsOf(result) <=> ConditionSet(r) \subseteq Range(call.selections))

\* ------------------------------------------------------------------------
\* C9: the adjustments compound in the order returned: each is applied to
\* the running total the one before it left, a fixed one adding its amount
\* and a percentage one multiplying by (1 + pct/100).  Base price 100,
\* options at 20 and 30, a fixed +10 then a +10% give 176, not 175.
\* ------------------------------------------------------------------------
\* t is the running total after adjustment a was applied to the total s
Adjusted(s, a, t) ==
  IF a.is_percentage
    THEN t * 100 = s * (100 + a.price_adjustment)
    ELSE t = s + a.price_adjustment * Scale

\* the running total after the first k adjustments
RECURSIVE RunningTotal(_, _, _)
RunningTotal(adjustments, start, k) ==
  IF k = 0 THEN start
  ELSE LET s == RunningTotal(adjustments, start, k - 1)
           a == adjustments[k]
       IN  IF a.is_percentage
             THEN (s * (100 + a.price_adjustment)) \div 100
             ELSE s + a.price_adjustment * Scale

\* final is what the chain of running totals from start ends in, and every
\* link of the chain is exact
Compounds(adjustments, start, final) ==
  /\ final = RunningTotal(adjustments, start, Len(adjustments))
  /\ \A k \in DOMAIN adjustments :
        Adjusted(RunningTotal(adjustments, start, k - 1), adjustments[k],
                 RunningTotal(adjustments, start, k))

IsWorkedExample ==
  /\ call.op = "calculateTotalPrice"
  /\ call.selectedOptions = <<1, 2>>
  /\ Len(result.adjustments) = 2
  /\ ~result.adjustments[1].is_percentage
  /\ result.adjustments[2].is_percentage

SequentialCompounding ==
  pc = "done" =>
    /\ call.op = "calculateTotalPrice" =>
         /\ Compounds(result.adjustments, result.basePrice + result.optionPriceSum,
                      result.totalPrice)
         /\ IsWorkedExample => result.totalPrice = 176 * Scale
    /\ call.op = "calculateOptionPrices" =>
         \A k \in DOMAIN result :
            Compounds(result[k].priceAdjustments, result[k].basePrice, result[k].finalPrice)

SequentialCompoundingWitness ==
  /\ pc = "done"
  /\ IsWorkedExample
  /\ result.basePrice = 100 * Scale
  /\ result.optionPriceSum = 50 * Scale
  /\ result.totalPrice = 176 * Scale

\* ------------------------------------------------------------------------
\* C10: calculateTotalPrice returns the base price of the product and, as
\* optionPriceSum, the sum of the base prices of the selected options, one
\* term for each entry of the selection list; without a matching rule the
\* total is their sum.
\* ------------------------------------------------------------------------
OneTermPerEntry ==
  (pc = "done" /\ call.op = "calculateTotalPrice"
     /\ Range(call.selectedOptions) \subseteq DOMAIN partOptions) =>
    LET sel == call.selectedOptions
    IN  /\ result.basePrice = products[call.productId].base_price
        /\ result.optionPriceSum =
             SumOver(DOMAIN sel, [i \in DOMAIN sel |-> partOptions[sel[i]].base_price])
        /\ Len(result.adjustments) = 0 =>
             result.totalPrice = result.basePrice + result.optionPriceSum

\* ------------------------------------------------------------------------
\* C11: a pricing query over an empty or one-option selection evaluates no
\* rule: getPriceAdjustments given 0 or 1 selections returns the empty list
\* and makes no store access, and getAvailableOptions without current
\* selections returns every active option of the part type with finalPrice
\* equal to its base price and an empty priceAdjustments list, whatever the
\* pricing rules are.
\* ------------------------------------------------------------------------
SingletonSkipsRules ==
  pc = "done" =>
    /\ (call.op = "getPriceAdjustments" /\ Len(call.selections) <= 1) =>
         /\ result = <<>>
         /\ queries = <<>>
    /\ (call.op = "getAvailableOptions" /\ Len(call.currentSelections) = 0) =>
         /\ "pricingRules" \notin Range(queries)
         /\ idsOf(result) = {o \in DOMAIN partOptions :
                               /\ partOptions[o].part_type_id = call.partTypeId
                               /\ partOptions[o].active}
         /\ Len(result) = Cardinality(idsOf(result))
         /\ \A k \in DOMAIN result :
               /\ result[k].finalPrice = partOptions[result[k].id].base_price
               /\ result[k].basePrice = partOptions[result[k].id].base_price
               /\ result[k].priceAdjustments = <<>>

\* every option offered is under an active pricing rule, and none is applied
SingletonSkipsRulesWitness ==
  /\ pc = "done"
  /\ call.op = "getAvailableOptions"
  /\ call.currentSelections = <<>>
  /\ Len(result) >= 2
  /\ \A k \in DOMAIN result :
        \E r \in PricingRuleIds :
           pricingRules[r].active /\ pricingRuleConditions[<<r, result[k].id>>] > 0

\* ------------------------------------------------------------------------
\* C12: with no current selection filterIncompatibleOptions returns the
\* candidate list it was given, the same options in the same order, and
\* makes no store access.
\* ------------------------------------------------------------------------
EmptySelectionIdentity ==
  (pc = "done" /\ call.op = "filterIncompatibleOptions"
     /\ Len(call.currentSelections) = 0) =>
    /\ result = call.options
    /\ queries = <<>>

\* two candidates that an active rule sets against each other
EmptySelectionIdentityWitness ==
  /\ pc = "done"
  /\ call.op = "filterIncompatibleOptions"
  /\ call.currentSelections = <<>>
  /\ Len(result) >= 2
  /\ \E rc \in ruleConditions :
        /\ incompatibilityRules[rc[1]].active
        /\ {rc[2], rc[3]} \subseteq idsOf(call.options)

\* ------------------------------------------------------------------------
\* C13: for a non-empty option list addInventoryStatus returns the options
\* in their order, each with its own inventory record when it has one and
\* with {in_stock: false, quantity: 0} when it has none; an option without
\* a record is never given as in stock.
\* ------------------------------------------------------------------------
StockDefault ==
  (pc = "done" /\ call.op = "addInventoryStatus" /\ Len(call.options) > 0) =>
    /\ Len(result) = Len(call.options)
    /\ \A k \in DOMAIN result :
          LET o == call.options[k].id
          IN  /\ result[k].id = o
              /\ inventory[o] # <<>> =>
                    \E i \in DOMAIN inventory[o] : result[k].inventory = inventory[o][i]
              /\ inventory[o] = <<>> =>
                    /\ result[k].inventory.in_stock = FALSE
                    /\ result[k].inventory.quantity = 0

\* a list with an option in stock, an option with a record out of stock
\* and an option without a record
StockDefaultWitness ==
  /\ pc = "done"
  /\ call.op = "addInventoryStatus"
  /\ \E k \in DOMAIN result :
        inventory[result[k].id] = <<>> /\ ~result[k].inventory.in_stock
  /\ \E k \in DOMAIN result :
        inventory[result[k].id] # <<>> /\ result[k].inventory.in_stock
  /\ \E k \in DOMAIN result :
        inventory[result[k].id] # <<>> /\ ~result[k].inventory.in_stock

\* ------------------------------------------------------------------------
\* C14: for the rule set and the candidate list of a call,
\* filterIncompatibleOptions returns the same list for every permutation of
\* the selected option ids.
\* ------------------------------------------------------------------------
PermutationsOf(s) == {[i \in DOMAIN s |-> s[p[i]]] : p \in Permutations(DOMAIN s)}

updateInventory(partOptionId, inventoryData) ==
  LET row == InventoryRow(inventoryData.quantity, inventoryData.inStock)
  IN  /\ inventory' =
            [inventory EXCEPT ![partOptionId] =
               IF Len(@) > 0 THEN [k \in DOMAIN @ |-> row] ELSE <<row>>]
      /\ UNCHANGED <<products, partTypes, productPartTypes, partOptions,
                     incompatibilityRules, ruleConditions, pricingRules,
                     pricingRuleConditions>>
      /\ UNCHANGED <<orderStore, pc, call, queries, locals, result, previous, session>>

InventoryData == [quantity : 0 .. MaxQuantity, inStock : BOOLEAN]

\* ------------------------------------------------------------------------
\* Specification of repeated validation: a caller validates a selection,
\* keeps the result, and validates the same selection again; the stock of
\* option 1 is updated between the calls
\* ------------------------------------------------------------------------
\* the call returns to its caller, who keeps the result and what the store
\* held
returned ==
  /\ pc = "done"
  /\ pc' = "idle"
  /\ previous' = [call |-> call, result |-> result, store |-> store]
  /\ UNCHANGED <<store, orderStore, call, queries, locals, result, session>>

validateAgain ==
  /\ previous # NoPrevious
  /\ validateConfiguration(previous.call.productId, previous.call.selectedOptions)

InitRepeat ==
  /\ products = FixtureProducts
  /\ partTypes = FixturePartTypes
  /\ productPartTypes = FixtureProductPartTypes
  /\ partOptions = [o \in ShortCatalogIds |-> FixturePartOptions[o]]
  /\ inventory \in {inv \in [PartOptionIds -> InventoryRows] :
                      /\ inv[2] = FixtureInventory[2]
                      /\ \A o \in PartOptionIds \ ShortCatalogIds : inv[o] = <<>>}
  /\ incompatibilityRules = FixtureIncompatibilityRules
  /\ ruleConditions \in {rows \in SUBSET RuleConditionRows(ShortCatalogIds) :
                           Cardinality(rows) <= MaxRuleRows}
  /\ pricingRules = FixturePricingRules
  /\ pricingRuleConditions = NoPricingRuleConditions
  /\ InitCall
  /\ NoOrders

NextRepeat ==
  \/ \E p \in ProductIds, sel \in SeqsUpTo(PartOptionIds, MaxSelections) :
        previous = NoPrevious /\ validateConfiguration(p, sel)
  \/ validateAgain
  \/ validateConfiguration_compatibility
  \/ validateConfiguration_availability
  \/ returned
  \/ \E data \in InventoryData : pc = "idle" /\ updateInventory(1, data)

SpecRepeat == InitRepeat /\ [][NextRepeat]_vars

UnknownOptionNotFound ==
  (ValidateDone /\ ~(Range(call.selectedOptions) \subseteq DOMAIN partOptions)) =>
    /\ "error" \in DOMAIN result
    /\ result.error = "NotFoundError"

\* ------------------------------------------------------------------------
\* OrderService over the order tables.  A call of a customer advances one
\* store access at a time, and the calls of two customers interleave at
\* their store accesses.  Each statement gives its caller what the caller
\* reads of it: the row (or none) where the code reads fields of the
\* result, the list of rows where the code iterates over it.
\* ------------------------------------------------------------------------
core == <<pc, call, queries, locals, result, previous>>

\* the value of a column that holds nothing (a text column holds a text of
\* one value or none)
Null == <<>>

\* what the customers pass as shipping and payment details
ShippingDetails == {"123 Main St"}
PaymentDetails == {"card"}

NewSession(op, at, args) ==
  [op |-> op, pc |-> at, args |-> args, cart |-> <<>>, items |-> <<>>,
   item |-> <<>>, configurations |-> <<>>, unavailableItems |-> <<>>,
   cartItem |-> <<>>, pricing |-> <<>>, paymentResult |-> <<>>,
   failed |-> "none", result |-> NoResult]

\* a call is made when the call before it has returned
SessionCallable(s) == session[s].pc \in {"idle", "done"}

At(s, op, at) == session[s].op = op /\ session[s].pc = at

\* SELECT id, customer_id, total_price FROM Orders WHERE id = ? AND status = 'cart'
cartRows(cartId) ==
  IF cartId \in DOMAIN orders /\ orders[cartId].status = "cart"
    THEN <<[id |-> cartId, customer_id |-> orders[cartId].customer_id,
            total_price |-> orders[cartId].total_price]>>
    ELSE <<>>

\* SELECT oi.id, oi.product_id, oi.quantity FROM OrderItems oi WHERE oi.order_id = ?
itemsOfOrder(orderId) ==
  SelectSeq([i \in DOMAIN orderItems |-> [id |-> i] @@ orderItems[i]],
            LAMBDA r : r.order_id = orderId)

\* SELECT oic.part_option_id FROM OrderItemConfiguration oic WHERE oic.order_item_id = ?
configurationsOfItem(itemId) ==
  SelectSeq(orderItemConfiguration, LAMBDA r : r.order_item_id = itemId)

\* where the two nested loops over items and configurations go on after a
\* statement: the next configuration of the item, the next item, or the
\* code after the loops
LoopPc(r, onConfiguration, onItem, after) ==
  IF Len(r.configurations) > 0 THEN onConfiguration
  ELSE IF Len(r.items) > 0 THEN onItem
  ELSE after

\* ------------------------------------------------------------------------
\* OrderService.checkout and verifyInventoryForCart
\* ------------------------------------------------------------------------
checkout(s, cartId, shippingDetails, paymentDetails) ==
  /\ SessionCallable(s)
  /\ session' = [session EXCEPT ![s] =
        NewSession("checkout", "cart",
                   [cartId |-> cartId, shippingDetails |-> shippingDetails,
                    paymentDetails |-> paymentDetails])]
  /\ UNCHANGED <<store, orderStore, core>>

\* if (!cart) return 'Cart not found'
checkout_cart(s) ==
  /\ At(s, "checkout", "cart")
  /\ LET cart == cartRows(session[s].args.cartId)
     IN  session' = [session EXCEPT ![s] =
           IF Len(cart) = 0
             THEN [@ EXCEPT !.pc = "done",
                            !.result = [success |-> FALSE, message |-> "Cart not found"]]
             ELSE [@ EXCEPT !.pc = "items", !.cart = cart]]
  /\ UNCHANGED <<store, orderStore, core>>

\* faulty variant: a cart without items goes on to the inventory check
checkout_items_noEmptyCheck(s) ==
  /\ At(s, "checkout", "items")
  /\ session' = [session EXCEPT ![s] = [@ EXCEPT !.pc = "verify_items"]]
  /\ UNCHANGED <<store, orderStore, core>>

\* if (items.length === 0) return 'Cart is empty'
checkout_items(s) ==
  /\ At(s, "checkout", "items")
  /\ LET items == itemsOfOrder(session[s].args.cartId)
     IN  session' = [session EXCEPT ![s] =
           IF Len(items) = 0
             THEN [@ EXCEPT !.pc = "done",
                            !.result = [success |-> FALSE, message |-> "Cart is empty"]]
             ELSE [@ EXCEPT !.pc = "verify_items"]]
  /\ UNCHANGED <<store, orderStore, core>>

\* processPayment: the mock of the payment gateway, which accepts every
\* payment (the time stamp and random number of the reference are left out)
processPayment(amount, paymentDetails) == [success |-> TRUE, reference |-> "PAY"]

\* verifyInventoryForCart is called by checkout and by the callers of the
\* service
verifyInventoryForCart(s, cartId) ==
  /\ SessionCallable(s)
  /\ session' = [session EXCEPT ![s] =
        NewSession("verifyInventoryForCart", "verify_items", [cartId |-> cartId])]
  /\ UNCHANGED <<store, orderStore, core>>

InVerify(s, at) ==
  /\ session[s].op \in {"checkout", "verifyInventoryForCart"}
  /\ session[s].pc = at

\* the end of verifyInventoryForCart and what checkout does with its
\* result: return the unavailable items, or take the payment and, when it
\* has succeeded, go on to the update of the order
checkout_verified(r) ==
  IF Len(r.unavailableItems) > 0
    THEN [r EXCEPT !.pc = "done",
                   !.result = [success |-> FALSE,
                               message |-> "Some items are no longer available",
                               unavailableItems |-> r.unavailableItems]]
    ELSE LET paymentResult == processPayment(r.cart[1].total_price, r.args.paymentDetails)
         IN  IF ~paymentResult.success
               THEN [r EXCEPT !.pc = "done",
                              !.paymentResult = paymentResult,
                              !.result = [success |-> FALSE, message |-> "Payment failed"]]
               ELSE [r EXCEPT !.pc = "update", !.paymentResult = paymentResult]

\* return { available: unavailableItems.length === 0, unavailableItems },
\* to checkout when checkout made the call
verifyInventoryForCart_returns(r) ==
  IF r.op = "checkout" THEN checkout_verified(r)
  ELSE [r EXCEPT !.pc = "done",
                 !.result = [available |-> Len(r.unavailableItems) = 0,
                             unavailableItems |-> r.unavailableItems]]

verifyInventoryForCart_next(r) ==
  LET at == LoopPc(r, "verify_inventory", "verify_configurations", "verified")
  IN  IF at = "verified" THEN verifyInventoryForCart_returns(r) ELSE [r EXCEPT !.pc = at]

verifyInventoryForCart_items(s) ==
  /\ InVerify(s, "verify_items")
  /\ session' = [session EXCEPT ![s] =
        verifyInventoryForCart_next(
          [@ EXCEPT !.items = itemsOfOrder(session[s].args.cartId),
                    !.configurations = <<>>,
                    !.unavailableItems = <<>>])]
  /\ UNCHANGED <<store, orderStore, core>>

verifyInventoryForCart_configurations(s) ==
  /\ InVerify(s, "verify_configurations")
  /\ LET item == Head(session[s].items)
     IN  session' = [session EXCEPT ![s] =
           verifyInventoryForCart_next(
             [@ EXCEPT !.item = item,
                       !.items = Tail(session[s].items),
                       !.configurations = configurationsOfItem(item.id)])]
  /\ UNCHANGED <<store, orderStore, core>>

\* !inventory || !inventory.in_stock || inventory.quantity < item.quantity
insufficient(item, partOptionId) ==
  \/ Len(inventory[partOptionId]) = 0
  \/ ~inventory[partOptionId][1].in_stock
  \/ inventory[partOptionId][1].quantity < item.quantity

verifyInventoryForCart_inventory(s) ==
  /\ InVerify(s, "verify_inventory")
  /\ LET item   == session[s].item
         config == Head(session[s].configurations)
         o      == config.part_option_id
         entry  == [orderItemId |-> item.id,
                    partOptionId |-> o,
                    requestedQuantity |-> item.quantity,
                    availableQuantity |->
                      IF Len(inventory[o]) > 0 THEN inventory[o][1].quantity ELSE 0]
     IN  session' = [session EXCEPT ![s] =
           verifyInventoryForCart_next(
             [@ EXCEPT !.configurations = Tail(session[s].configurations),
                       !.unavailableItems =
                          IF insufficient(item, o) THEN Append(@, entry) ELSE @])]
  /\ UNCHANGED <<store, orderStore, core>>

\* JSON.stringify: the text of a value, which is not the value
stringify(value) == <<value>>

\* UPDATE Orders SET status = 'pending', shipping_address = ?,
\* payment_reference = ? WHERE id = ?
checkout_update(s) ==
  /\ At(s, "checkout", "update")
  /\ LET cartId == session[s].args.cartId
     IN  /\ orders' = [k \in DOMAIN orders |->
                         IF k = cartId
                           THEN [orders[k] EXCEPT
                                   !.status = "pending",
                                   !.shipping_address =
                                      stringify(session[s].args.shippingDetails),
                                   !.payment_reference =
                                      <<session[s].paymentResult.reference>>]
                         ELSE orders[k]]
         /\ session' = [session EXCEPT ![s] =
               [@ EXCEPT !.pc = "done",
                         !.result = [success |-> TRUE,
                                     message |-> "Order placed successfully",
                                     orderId |-> cartId,
                                     paymentReference |->
                                        session[s].paymentResult.reference]]]
  /\ UNCHANGED <<store, orderItems, orderItemConfiguration, core>>

\* ------------------------------------------------------------------------
\* OrderService.updateInventoryFromOrder
\* ------------------------------------------------------------------------
updateInventoryFromOrder(s, orderId) ==
  /\ SessionCallable(s)
  /\ session' = [session EXCEPT ![s] =
        NewSession("updateInventoryFromOrder", "update_items", [orderId |-> orderId])]
  /\ UNCHANGED <<store, orderStore, core>>

updateInventoryFromOrder_next(r) ==
  LET at == LoopPc(r, "update_quantity", "update_configurations", "done")
  IN  IF at = "done" THEN [r EXCEPT !.pc = "done", !.result = [returned |-> TRUE]]
      ELSE [r EXCEPT !.pc = at]

updateInventoryFromOrder_items(s) ==
  /\ At(s, "updateInventoryFromOrder", "update_items")
  /\ session' = [session EXCEPT ![s] =
        updateInventoryFromOrder_next(
          [@ EXCEPT !.items = itemsOfOrder(session[s].args.orderId),
                    !.configurations = <<>>])]
  /\ UNCHANGED <<store, orderStore, core>>

updateInventoryFromOrder_configurations(s) ==
  /\ At(s, "updateInventoryFromOrder", "update_configurations")
  /\ LET item == Head(session[s].items)
     IN  session' = [session EXCEPT ![s] =
           updateInventoryFromOrder_next(
             [@ EXCEPT !.item = item,
                       !.items = Tail(session[s].items),
                       !.configurations = configurationsOfItem(item.id)])]
  /\ UNCHANGED <<store, orderStore, core>>

catalog == <<products, partTypes, productPartTypes, partOptions,
             incompatibilityRules, ruleConditions, pricingRules,
             pricingRuleConditions>>

\* UPDATE Inventory SET quantity = quantity - ? WHERE part_option_id = ?
updateInventoryFromOrder_quantity(s) ==
  /\ At(s, "updateInventoryFromOrder", "update_quantity")
  /\ LET o == Head(session[s].configurations).part_option_id
         rows == inventory[o]
     IN  inventory' = [inventory EXCEPT ![o] =
           [k \in DOMAIN rows |->
              [rows[k] EXCEPT !.quantity = rows[k].quantity - session[s].item.quantity]]]
  /\ session' = [session EXCEPT ![s] = [@ EXCEPT !.pc = "update_in_stock"]]
  /\ UNCHANGED <<catalog, orderStore, core>>

\* UPDATE Inventory SET in_stock = (quantity > 0)
\* WHERE part_option_id = ? AND quantity <= 0
updateInventoryFromOrder_in_stock(s) ==
  /\ At(s, "updateInventoryFromOrder", "update_in_stock")
  /\ LET o == Head(session[s].configurations).part_option_id
         rows == inventory[o]
     IN  inventory' = [inventory EXCEPT ![o] =
           [k \in DOMAIN rows |->
              IF rows[k].quantity <= 0
                THEN [rows[k] EXCEPT !.in_stock = (rows[k].quantity > 0)]
                ELSE rows[k]]]
  /\ session' = [session EXCEPT ![s] =
        updateInventoryFromOrder_next(
          [@ EXCEPT !.configurations = Tail(session[s].configurations)])]
  /\ UNCHANGED <<catalog, orderStore, core>>

\* ------------------------------------------------------------------------
\* Specification of order placement: two customers, each with a cart of one
\* bike of frame 1 and wheels 2, one unit of each option in stock; each
\* checks out and, once the order is placed, has its inventory updated
\* ------------------------------------------------------------------------
CartConfiguration == <<1, 2>>

InitCarts ==
  LET price == totalPrice(1, CartConfiguration).totalPrice
  IN  /\ orders = [s \in Sessions |->
                     [customer_id |-> s, status |-> "cart", total_price |-> price,
                      shipping_address |-> Null, payment_reference |-> Null]]
      /\ orderItems = [s \in Sessions |->
                         [order_id |-> s, product_id |-> 1, quantity |-> 1, price |-> price]]
      /\ orderItemConfiguration =
            [k \in 1 .. (Cardinality(Sessions) * Len(CartConfiguration)) |->
               [order_item_id |-> ((k - 1) \div Len(CartConfiguration)) + 1,
                part_option_id |-> CartConfiguration[((k - 1) % Len(CartConfiguration)) + 1]]]
      /\ session = [s \in Sessions |-> IdleSession]

InitCheckout ==
  /\ products = FixtureProducts
  /\ partTypes = FixturePartTypes
  /\ productPartTypes = FixtureProductPartTypes
  /\ partOptions = [o \in ShortCatalogIds |-> FixturePartOptions[o]]
  /\ inventory = [o \in PartOptionIds |->
                    IF o \in ShortCatalogIds THEN FixtureInventory[o] ELSE <<>>]
  /\ incompatibilityRules = FixtureIncompatibilityRules
  /\ ruleConditions = {}
  /\ pricingRules = FixturePricingRules
  /\ pricingRuleConditions = FixturePricingRuleConditions
  /\ InitCall
  /\ InitCarts

\* the order a customer checks out is the cart of that customer, and the
\* inventory is updated for an order once its checkout has placed it
placed(s) ==
  /\ At(s, "checkout", "done")
  /\ session[s].result.success

NextCheckout ==
  \/ \E s \in Sessions, shipping \in ShippingDetails, payment \in PaymentDetails :
        session[s].op = "none" /\ checkout(s, s, shipping, payment)
  \/ \E s \in Sessions : checkout_cart(s)
  \/ \E s \in Sessions : checkout_items(s)
  \/ \E s \in Sessions : verifyInventoryForCart_items(s)
  \/ \E s \in Sessions : verifyInventoryForCart_configurations(s)
  \/ \E s \in Sessions : verifyInventoryForCart_inventory(s)
  \/ \E s \in Sessions : checkout_update(s)
  \/ \E s \in Sessions : placed(s) /\ updateInventoryFromOrder(s, session[s].result.orderId)
  \/ \E s \in Sessions : updateInventoryFromOrder_items(s)
  \/ \E s \in Sessions : updateInventoryFromOrder_configurations(s)
  \/ \E s \in Sessions : updateInventoryFromOrder_quantity(s)
  \/ \E s \in Sessions : updateInventoryFromOrder_in_stock(s)

SpecCheckout == InitCheckout /\ [][NextCheckout]_vars

\* ------------------------------------------------------------------------
\* C17: two checkouts of carts that each hold one unit of the same option,
\* one unit of it in stock, interleaved at their store accesses: they do
\* not both end as a placed order with the inventory decremented for both.
\* ------------------------------------------------------------------------
inventoryUpdated(s) == At(s, "updateInventoryFromOrder", "done")

NoOverselling ==
  ~(\A s \in Sessions :
       /\ orders[s].status = "pending"
       /\ inventoryUpdated(s))

\* ------------------------------------------------------------------------
\* AdminService.createPartOption: the option is inserted under the next id
\* and, when an initial stock is given, an inventory record with that
\* quantity and in_stock true
\* ------------------------------------------------------------------------
PartOptionData ==
  [partTypeId : PartTypeIds, basePrice : {FixturePartOptions[1].base_price}]
    \cup [partTypeId : PartTypeIds, basePrice : {FixturePartOptions[1].base_price},
          initialStock : 0 .. MaxQuantity]

createPartOption(partOptionData) ==
  LET id == Cardinality(DOMAIN partOptions) + 1
  IN  /\ id \in PartOptionIds
      /\ partOptions' =
            [o \in DOMAIN partOptions \cup {id} |->
               IF o = id
                 THEN [part_type_id |-> partOptionData.partTypeId,
                       base_price |-> partOptionData.basePrice,
                       active |-> TRUE]
                 ELSE partOptions[o]]
      /\ inventory' =
            IF "initialStock" \in DOMAIN partOptionData
              THEN [inventory EXCEPT ![id] =
                      Append(@, InventoryRow(partOptionData.initialStock, TRUE))]
              ELSE inventory
      /\ UNCHANGED <<products, partTypes, productPartTypes, incompatibilityRules,
                     ruleConditions, pricingRules, pricingRuleConditions>>
      /\ UNCHANGED <<orderStore, core, session>>

\* ------------------------------------------------------------------------
\* Specification of the inventory: order placement as above, with the
\* administrator creating part options and updating the stock of the frame
\* the two carts hold
\* ------------------------------------------------------------------------
NextInventory ==
  \/ NextCheckout
  \/ \E data \in PartOptionData : createPartOption(data)
  \/ \E data \in InventoryData : updateInventory(Head(CartConfiguration), data)

SpecInventory == InitCheckout /\ [][NextInventory]_vars

\* ------------------------------------------------------------------------
\* C18: in every state reached through createPartOption, updateInventory
\* and updateInventoryFromOrder, the state between the two updates of
\* updateInventoryFromOrder included, every inventory record has in_stock
\* equal to (quantity > 0).
\* ------------------------------------------------------------------------
InventoryFlagInvariant ==
  \A o \in DOMAIN inventory :
     \A k \in DOMAIN inventory[o] :
        inventory[o][k].in_stock = (inventory[o][k].quantity > 0)

\* ------------------------------------------------------------------------
\* Failure of a store access.  SQLiteDatabase.query logs the error and
\* throws it again, and no method of the two services catches: the call
\* that made the access ends with the error of the store.
\* ------------------------------------------------------------------------
DataAccessError == [error |-> "DB error"]

\* one of the accesses q of a call that returns in one step fails
Throws(c, q) ==
  \E k \in 1 .. Len(q) :
     /\ Callable
     /\ call' = c
     /\ queries' = SubSeq(q, 1, k) \o <<"DB error">>
     /\ result' = DataAccessError
     /\ pc' = "done"
     /\ UNCHANGED <<store, orderStore, previous, session, locals>>

getAvailableOptions_throws(productId, partTypeId, currentSelections) ==
  LET options              == optionsOfPartType(partTypeId)
      compatibleOptions    == filterIncompatibleOptions(options, currentSelections)
      optionsWithInventory == addInventoryStatus(compatibleOptions)
  IN  Throws([op |-> "getAvailableOptions", productId |-> productId,
              partTypeId |-> partTypeId, currentSelections |-> currentSelections],
             <<"partOptions">>
               \o filterIncompatibleOptionsQueries(options, currentSelections)
               \o addInventoryStatusQueries(compatibleOptions)
               \o calculateOptionPricesQueries(optionsWithInventory, currentSelections))

calculateTotalPrice_throws(productId, selectedOptions) ==
  Throws([op |-> "calculateTotalPrice", productId |-> productId,
          selectedOptions |-> selectedOptions],
         <<"product", "optionPrices">> \o getPriceAdjustmentsQueries(selectedOptions))

validateConfiguration_throws(productId, selectedOptions) ==
  Throws([op |-> "validateConfiguration", productId |-> productId,
          selectedOptions |-> selectedOptions],
         <<"requiredPartTypes">> \o [i \in 1 .. Len(selectedOptions) |-> "partOption"])

\* one of the accesses q of the gate the call is at fails
gateThrows(at, q) ==
  /\ pc = at
  /\ \E k \in 1 .. Len(q) :
        /\ queries' = queries \o SubSeq(q, 1, k) \o <<"DB error">>
        /\ result' = DataAccessError
        /\ pc' = "done"
        /\ UNCHANGED <<store, orderStore, previous, session, call, locals>>

validateConfiguration_compatibility_throws ==
  gateThrows("compatibility",
             [k \in 1 .. Len(IndexPairs(1, Len(call.selectedOptions))) |-> "conflict"])

validateConfiguration_availability_throws ==
  gateThrows("availability", [i \in 1 .. Len(call.selectedOptions) |-> "inventory"])

\* faulty variant: the failure is caught and the call returns as a success
queryFails_caught(s) ==
  /\ session[s].pc \notin {"idle", "done"}
  /\ session' = [session EXCEPT ![s] =
        [@ EXCEPT !.pc = "done",
                  !.failed = session[s].pc,
                  !.result = [success |-> TRUE, message |-> "Item added to cart"]]]
  /\ UNCHANGED <<store, orderStore, core>>

\* the store access an OrderService call is at fails
queryFails(s) ==
  /\ session[s].pc \notin {"idle", "done"}
  /\ session' = [session EXCEPT ![s] =
        [@ EXCEPT !.pc = "done",
                  !.failed = session[s].pc,
                  !.result = DataAccessError]]
  /\ UNCHANGED <<store, orderStore, core>>

\* ------------------------------------------------------------------------
\* OrderService.addToCart, getOrCreateCart and updateCartTotal
\* ------------------------------------------------------------------------
\* what validateConfiguration returns, its three gates in one evaluation
validationResult(productId, selectedOptions) ==
  LET missing     == MissingPartTypes(productId, selectedOptions)
      conflicting == Incompatibilities(selectedOptions)
      unavailable == UnavailableOptions(selectedOptions)
  IN  IF Len(missing) > 0
        THEN [valid |-> FALSE,
              message |-> "Missing required selections",
              names |-> [k \in 1 .. Len(missing) |-> partTypes[missing[k]].name]]
      ELSE IF Len(conflicting) > 0
        THEN [valid |-> FALSE,
              message |-> "Selected options contain incompatible combinations",
              incompatibilities |-> conflicting]
      ELSE IF Len(unavailable) > 0
        THEN [valid |-> FALSE,
              message |-> "Some selected options are out of stock",
              unavailableOptions |-> unavailable]
      ELSE [valid |-> TRUE, message |-> "Configuration is valid"]

addToCart(s, productId, selectedOptions, quantity) ==
  /\ SessionCallable(s)
  /\ session' = [session EXCEPT ![s] =
        NewSession("addToCart", "validate",
                   [customerId |-> s, productId |-> productId,
                    selectedOptions |-> selectedOptions, quantity |-> quantity])]
  /\ UNCHANGED <<store, orderStore, core>>

\* faulty variant: the item is added whatever the validation says
addToCart_validate_noGate(s) ==
  /\ At(s, "addToCart", "validate")
  /\ session' = [session EXCEPT ![s] = [@ EXCEPT !.pc = "price"]]
  /\ UNCHANGED <<store, orderStore, core>>

\* if (!validationResult.valid) return { success: false, ... }
addToCart_validate(s) ==
  /\ At(s, "addToCart", "validate")
  /\ LET v == validationResult(session[s].args.productId, session[s].args.selectedOptions)
     IN  session' = [session EXCEPT ![s] =
           IF v.valid
             THEN [@ EXCEPT !.pc = "price"]
             ELSE [@ EXCEPT !.pc = "done",
                            !.result = [success |-> FALSE, message |-> v.message,
                                        details |-> v]]]
  /\ UNCHANGED <<store, orderStore, core>>

addToCart_price(s) ==
  /\ At(s, "addToCart", "price")
  /\ session' = [session EXCEPT ![s] =
        [@ EXCEPT !.pc = "cart",
                  !.pricing = totalPrice(session[s].args.productId,
                                         session[s].args.selectedOptions)]]
  /\ UNCHANGED <<store, orderStore, core>>

\* SELECT id FROM Orders WHERE customer_id = ? AND status = 'cart' LIMIT 1
existingCart(customerId) ==
  {k \in DOMAIN orders : orders[k].customer_id = customerId /\ orders[k].status = "cart"}

\* faulty variant: a cart is created whether or not the customer has one
getOrCreateCart_existing_alwaysNew(s) ==
  /\ At(s, "addToCart", "cart")
  /\ session' = [session EXCEPT ![s] = [@ EXCEPT !.pc = "new_cart"]]
  /\ UNCHANGED <<store, orderStore, core>>

\* if (existingCart) return existingCart
getOrCreateCart_existing(s) ==
  /\ At(s, "addToCart", "cart")
  /\ LET existing == existingCart(session[s].args.customerId)
     IN  session' = [session EXCEPT ![s] =
           IF existing # {}
             THEN [@ EXCEPT !.pc = "item",
                            !.cart = CHOOSE k \in existing : \A j \in existing : k <= j]
             ELSE [@ EXCEPT !.pc = "new_cart"]]
  /\ UNCHANGED <<store, orderStore, core>>

\* INSERT INTO Orders (customer_id, status, total_price) VALUES (?, 'cart', 0)
getOrCreateCart_insert(s) ==
  /\ At(s, "addToCart", "new_cart")
  /\ orders' = Append(orders, [customer_id |-> session[s].args.customerId,
                               status |-> "cart", total_price |-> 0,
                               shipping_address |-> Null, payment_reference |-> Null])
  /\ session' = [session EXCEPT ![s] = [@ EXCEPT !.pc = "item", !.cart = Len(orders) + 1]]
  /\ UNCHANGED <<store, orderItems, orderItemConfiguration, core>>

\* INSERT INTO OrderItems (order_id, product_id, quantity, price)
addToCart_item(s) ==
  /\ At(s, "addToCart", "item")
  /\ orderItems' = Append(orderItems,
                          [order_id |-> session[s].cart,
                           product_id |-> session[s].args.productId,
                           quantity |-> session[s].args.quantity,
                           price |-> session[s].pricing.totalPrice])
  /\ session' = [session EXCEPT ![s] =
        [@ EXCEPT !.cartItem = Len(orderItems) + 1,
                  !.configurations = session[s].args.selectedOptions,
                  !.pc = IF Len(session[s].args.selectedOptions) > 0
                           THEN "configuration" ELSE "total"]]
  /\ UNCHANGED <<store, orders, orderItemConfiguration, core>>

\* INSERT INTO OrderItemConfiguration (order_item_id, part_option_id)
addToCart_configuration(s) ==
  /\ At(s, "addToCart", "configuration")
  /\ orderItemConfiguration' =
        Append(orderItemConfiguration,
               [order_item_id |-> session[s].cartItem,
                part_option_id |-> Head(session[s].configurations)])
  /\ session' = [session EXCEPT ![s] =
        [@ EXCEPT !.configurations = Tail(session[s].configurations),
                  !.pc = IF Len(session[s].configurations) > 1
                           THEN "configuration" ELSE "total"]]
  /\ UNCHANGED <<store, orders, orderItems, core>>

\* UPDATE Orders SET total_price = (SELECT SUM(price * quantity) FROM OrderItems
\* WHERE order_id = ?) WHERE id = ?
updateCartTotal(s) ==
  /\ At(s, "addToCart", "total")
  /\ LET cartId == session[s].cart
         items  == itemsOfOrder(cartId)
         total  == SumOver(DOMAIN items,
                           [i \in DOMAIN items |-> items[i].price * items[i].quantity])
     IN  orders' = [k \in DOMAIN orders |->
                      IF k = cartId THEN [orders[k] EXCEPT !.total_price = total]
                      ELSE orders[k]]
  /\ session' = [session EXCEPT ![s] =
        [@ EXCEPT !.pc = "done",
                  !.result = [success |-> TRUE, message |-> "Item added to cart",
                              cartItemId |-> session[s].cartItem]]]
  /\ UNCHANGED <<store, orderItems, orderItemConfiguration, core>>

\* ------------------------------------------------------------------------
\* Specification of the cart: one customer adds configured bikes to the
\* cart and checks out, the three entry points of the configuration service
\* are called, and any store access may fail
\* ------------------------------------------------------------------------
MaxOrderItems == 1      \* most rows of OrderItems

\* a selection without wheels, a valid one, one with a frame out of stock
CartSelections == {<<1>>, <<1, 2>>, <<3, 2>>}

InitCart ==
  /\ products = FixtureProducts
  /\ partTypes = FixturePartTypes
  /\ productPartTypes = FixtureProductPartTypes
  /\ partOptions = FixturePartOptions
  /\ inventory = [o \in PartOptionIds |->
                    IF o = 3 THEN <<InventoryRow(0, FALSE)>> ELSE FixtureInventory[o]]
  /\ incompatibilityRules = FixtureIncompatibilityRules
  /\ ruleConditions \in {{}, {<<1, 3, 2>>}}
  /\ pricingRules = FixturePricingRules
  /\ pricingRuleConditions = FixturePricingRuleConditions
  /\ InitCall
  /\ NoOrders

Customer == CHOOSE s \in Sessions : \A t \in Sessions : s <= t

\* The entry points of the configuration service read the catalog and the
\* inventory only, which no call of the customer changes here: they are
\* called between the calls of the customer, and last.
Quiescent == Callable /\ SessionCallable(Customer)

\* the calls of the customer: addToCart while the order items are fewer
\* than maxItems, for a quantity that may exceed the stock, and checkout of
\* the first order
CustomerCalls(maxItems) ==
  \/ \E sel \in CartSelections, q \in 1 .. (MaxQuantity + 1) :
        /\ Callable
        /\ Len(orderItems) < maxItems
        /\ addToCart(Customer, 1, sel, q)
  \/ addToCart_validate(Customer)
  \/ addToCart_price(Customer)
  \/ getOrCreateCart_existing(Customer)
  \/ getOrCreateCart_insert(Customer)
  \/ addToCart_item(Customer)
  \/ addToCart_configuration(Customer)
  \/ updateCartTotal(Customer)
  \/ \E shipping \in ShippingDetails, payment \in PaymentDetails :
        Callable /\ checkout(Customer, 1, shipping, payment)
  \/ checkout_cart(Customer)
  \/ checkout_items(Customer)
  \/ verifyInventoryForCart_items(Customer)
  \/ verifyInventoryForCart_configurations(Customer)
  \/ verifyInventoryForCart_inventory(Customer)
  \/ checkout_update(Customer)
  \/ queryFails(Customer)

NextCart ==
  \/ CustomerCalls(MaxOrderItems)
  \/ \E t \in PartTypeIds, sel \in CartSelections :
        Quiescent /\ getAvailableOptions(1, t, sel)
  \/ \E sel \in CartSelections : Quiescent /\ calculateTotalPrice(1, sel)
  \/ \E sel \in CartSelections : Quiescent /\ validateConfiguration(1, sel)
  \/ validateConfiguration_compatibility
  \/ validateConfiguration_availability
  \/ \E t \in PartTypeIds, sel \in CartSelections :
        Quiescent /\ getAvailableOptions_throws(1, t, sel)
  \/ \E sel \in CartSelections : Quiescent /\ calculateTotalPrice_throws(1, sel)
  \/ \E sel \in CartSelections : Quiescent /\ validateConfiguration_throws(1, sel)
  \/ validateConfiguration_compatibility_throws
  \/ validateConfiguration_availability_throws

SpecCart == InitCart /\ [][NextCart]_vars

CoreOps == {"getAvailableOptions", "calculateTotalPrice", "validateConfiguration"}

\* ------------------------------------------------------------------------
\* C16: no step of getAvailableOptions, calculateTotalPrice or
\* validateConfiguration, whatever its arguments and its outcome, changes a
\* catalog, rule, inventory or order record.
\* ------------------------------------------------------------------------
PureReads ==
  [][(pc' # pc /\ call'.op \in CoreOps) => UNCHANGED <<store, orderStore>>]_vars

\* an entry point has returned a value over a store that holds a placed
\* order
PureReadsWitness ==
  /\ pc = "done"
  /\ call.op \in CoreOps
  /\ "DB error" \notin Range(queries)
  /\ \E k \in DOMAIN orders : orders[k].status = "pending"

\* ------------------------------------------------------------------------
\* C19: when a store access made during getAvailableOptions,
\* calculateTotalPrice, validateConfiguration, addToCart or checkout fails,
\* the call ends with the error of the store and returns no value; a failing
\* insert into OrderItems makes addToCart end with that error.
\* ------------------------------------------------------------------------
FailuresPropagate ==
  /\ (pc = "done" /\ "DB error" \in Range(queries)) => result = DataAccessError
  /\ \A s \in Sessions :
        (session[s].pc = "done" /\ session[s].failed # "none") =>
           /\ session[s].op \in {"addToCart", "checkout"}
           /\ session[s].result = DataAccessError

\* the insert into OrderItems of an addToCart fails, the cart row inserted
\* before it being in the store
FailuresPropagateWitness ==
  \E s \in Sessions :
     /\ At(s, "addToCart", "done")
     /\ session[s].failed = "item"
     /\ session[s].result = DataAccessError
     /\ Len(orders) > 0
     /\ Len(orderItems) = 0

\* ------------------------------------------------------------------------
\* C21: a checkout that returns has taken the first of these that applies:
\* 'Cart not found' when no order of that id has status 'cart', 'Cart is
\* empty' when the cart has no item, 'Some items are no longer available'
\* when a configured option has no record, is not in stock or has less than
\* the quantity of its item, 'Payment failed' when the payment has not
\* succeeded; in these four cases no payment was asked for before the
\* fourth, and the step that returns leaves the orders as they were.
\* Otherwise the order is 'pending' with the shipping address and the
\* payment reference recorded.
\* ------------------------------------------------------------------------
IsCart(cartId) == cartId \in DOMAIN orders /\ orders[cartId].status = "cart"

ItemsOf(cartId) == {i \in DOMAIN orderItems : orderItems[i].order_id = cartId}

OptionsOf(i) ==
  {orderItemConfiguration[k].part_option_id :
     k \in {j \in DOMAIN orderItemConfiguration :
              orderItemConfiguration[j].order_item_id = i}}

InStockFor(o, quantity) ==
  /\ Len(inventory[o]) > 0
  /\ inventory[o][1].in_stock
  /\ inventory[o][1].quantity >= quantity

AllAvailable(cartId) ==
  \A i \in ItemsOf(cartId) : \A o \in OptionsOf(i) : InStockFor(o, orderItems[i].quantity)

Returned(s, op) == At(s, op, "done") /\ session[s].failed = "none"

CheckoutOutcome(s) ==
  LET r      == session[s].result
      cartId == session[s].args.cartId
      paid   == session[s].paymentResult
  IN  Returned(s, "checkout") =>
        IF r.success
          THEN /\ orders[cartId].status = "pending"
               /\ orders[cartId].shipping_address # Null
               /\ orders[cartId].payment_reference = <<paid.reference>>
               /\ ItemsOf(cartId) # {}
               /\ AllAvailable(cartId)
               /\ paid.success
          ELSE /\ r.message = "Cart not found" =>
                    ~IsCart(cartId) /\ paid = <<>>
               /\ r.message = "Cart is empty" =>
                    IsCart(cartId) /\ ItemsOf(cartId) = {} /\ paid = <<>>
               /\ r.message = "Some items are no longer available" =>
                    /\ IsCart(cartId) /\ ItemsOf(cartId) # {}
                    /\ ~AllAvailable(cartId) /\ paid = <<>>
               /\ r.message = "Payment failed" =>
                    /\ IsCart(cartId) /\ ItemsOf(cartId) # {}
                    /\ AllAvailable(cartId) /\ paid # <<>> /\ ~paid.success
               /\ r.message \in {"Cart not found", "Cart is empty",
                                  "Some items are no longer available", "Payment failed"}

RefusalLeavesOrders(s) ==
  (/\ session[s].pc # "done"
   /\ session'[s].pc = "done"
   /\ session'[s].op = "checkout"
   /\ session'[s].failed = "none"
   /\ ~session'[s].result.success) => UNCHANGED orderStore

CheckoutContract ==
  /\ [](\A s \in Sessions : CheckoutOutcome(s))
  /\ [][\A s \in Sessions : RefusalLeavesOrders(s)]_vars

\* a checkout is refused for an item that asks for more than the stock
CheckoutContractWitness ==
  \E s \in Sessions :
     /\ Returned(s, "checkout")
     /\ session[s].result.message = "Some items are no longer available"
     /\ Len(session[s].result.unavailableItems) > 0
     /\ IsCart(session[s].args.cartId)

\* ------------------------------------------------------------------------
\* C22: when checkout has returned success for a cart, the inventory
\* quantity of every part option configured in the items of the cart is the
\* quantity it had before the checkout less the quantity of its item (no
\* other call changes the inventory of the cart specification, whose
\* records start as those of the fixture).
\* ------------------------------------------------------------------------
ReservesInventory ==
  \A s \in Sessions :
     (Returned(s, "checkout") /\ session[s].result.success) =>
        \A i \in ItemsOf(session[s].args.cartId) :
           \A o \in OptionsOf(i) :
              inventory[o][1].quantity =
                 FixtureInventory[o][1].quantity - orderItems[i].quantity

\* ------------------------------------------------------------------------
\* Specification of the inventory check: a cart of two items, the first
\* with one of the configurations addToCart stores (one row for each entry
\* of a selection, and validateConfiguration accepts a selection that names
\* an option twice), over every state of the inventory records of the two
\* options
\* ------------------------------------------------------------------------
VerifyConfigurations == {<<1, 2>>, <<1, 1, 2>>}

InventoryStates ==
  {<<>>} \cup {<<InventoryRow(q, b)>> : q \in 0 .. MaxQuantity, b \in BOOLEAN}

InitVerify ==
  /\ products = FixtureProducts
  /\ partTypes = FixturePartTypes
  /\ productPartTypes = FixtureProductPartTypes
  /\ partOptions = [o \in ShortCatalogIds |-> FixturePartOptions[o]]
  /\ inventory \in [PartOptionIds -> InventoryStates]
  /\ \A o \in PartOptionIds \ ShortCatalogIds : inventory[o] = <<>>
  /\ incompatibilityRules = FixtureIncompatibilityRules
  /\ ruleConditions = {}
  /\ pricingRules = FixturePricingRules
  /\ pricingRuleConditions = FixturePricingRuleConditions
  /\ InitCall
  /\ session = [s \in Sessions |-> IdleSession]
  /\ \E q1, q2 \in 1 .. (MaxQuantity + 1), first \in VerifyConfigurations :
        LET price == totalPrice(1, CartConfiguration).totalPrice
            rows1 == [k \in 1 .. Len(first) |->
                        [order_item_id |-> 1, part_option_id |-> first[k]]]
            rows2 == [k \in 1 .. Len(CartConfiguration) |->
                        [order_item_id |-> 2, part_option_id |-> CartConfiguration[k]]]
        IN  /\ orders = <<[customer_id |-> Customer, status |-> "cart",
                           total_price |-> price * (q1 + q2),
                           shipping_address |-> Null, payment_reference |-> Null]>>
            /\ orderItems =
                  <<[order_id |-> 1, product_id |-> 1, quantity |-> q1, price |-> price],
                    [order_id |-> 1, product_id |-> 1, quantity |-> q2, price |-> price]>>
            /\ orderItemConfiguration = rows1 \o rows2

NextVerify ==
  \/ \E cartId \in {1, 2} : verifyInventoryForCart(Customer, cartId)
  \/ verifyInventoryForCart_items(Customer)
  \/ verifyInventoryForCart_configurations(Customer)
  \/ verifyInventoryForCart_inventory(Customer)

SpecVerify == InitVerify /\ [][NextVerify]_vars

\* ------------------------------------------------------------------------
\* C23: verifyInventoryForCart returns available exactly when every option
\* configured on every item of the cart has a record that is in stock with
\* at least the quantity of the item; the unavailable items it returns are
\* the failing (item, option) pairs, one entry for each, with the quantity
\* of the item and the quantity of the record (0 without a record).
\* ------------------------------------------------------------------------
FailingPairs(cartId) ==
  {<<i, o>> \in ItemsOf(cartId) \X PartOptionIds :
      o \in OptionsOf(i) /\ ~InStockFor(o, orderItems[i].quantity)}

AvailableQuantity(o) == IF Len(inventory[o]) > 0 THEN inventory[o][1].quantity ELSE 0

OneEntryPerFailingPair ==
  \A s \in Sessions :
     Returned(s, "verifyInventoryForCart") =>
        LET r      == session[s].result
            cartId == session[s].args.cartId
        IN  /\ r.available = AllAvailable(cartId)
            /\ \A k \in DOMAIN r.unavailableItems :
                  LET e == r.unavailableItems[k]
                  IN  /\ <<e.orderItemId, e.partOptionId>> \in FailingPairs(cartId)
                      /\ e.requestedQuantity = orderItems[e.orderItemId].quantity
                      /\ e.availableQuantity = AvailableQuantity(e.partOptionId)
            /\ \A p \in FailingPairs(cartId) :
                  Cardinality({k \in DOMAIN r.unavailableItems :
                                 /\ r.unavailableItems[k].orderItemId = p[1]
                                 /\ r.unavailableItems[k].partOptionId = p[2]}) = 1

\* ------------------------------------------------------------------------
\* C24: an addToCart whose configuration validateConfiguration reports
\* invalid returns success false with the message and the result of the
\* validation, in the one step of the validation, which writes no order
\* table; the call has computed no price, has no cart and no cart item.
\* ------------------------------------------------------------------------
Rejected(s) ==
  /\ session[s].op = "addToCart"
  /\ ~validationResult(session[s].args.productId, session[s].args.selectedOptions).valid

RejectedWritesNothing(s) ==
  (Rejected(s) /\ session[s].failed = "none") =>
     /\ session[s].pc \in {"validate", "done"}
     /\ session[s].pricing = <<>>
     /\ session[s].cart = <<>>
     /\ session[s].cartItem = <<>>
     /\ session[s].pc = "done" =>
          LET v == validationResult(session[s].args.productId,
                                    session[s].args.selectedOptions)
          IN  session[s].result = [success |-> FALSE, message |-> v.message, details |-> v]

RejectionStep(s) ==
  (Rejected(s) /\ session'[s] # session[s] /\ session'[s].op = "addToCart") =>
     UNCHANGED orderStore

ValidationGate ==
  /\ [](\A s \in Sessions : RejectedWritesNothing(s))
  /\ [][\A s \in Sessions : RejectionStep(s)]_vars

\* an addToCart of a frame that is out of stock has been refused, the order
\* tables being empty
ValidationGateWitness ==
  \E s \in Sessions :
     /\ Returned(s, "addToCart")
     /\ Rejected(s)
     /\ session[s].result.message = "Some selected options are out of stock"
     /\ Len(orders) = 0 /\ Len(orderItems) = 0 /\ Len(orderItemConfiguration) = 0

\* ------------------------------------------------------------------------
\* Specification of the carts: the calls of the customer alone, for carts of
\* more than one item
\* ------------------------------------------------------------------------
MaxCartItems == 2       \* most items the customer adds to carts

NextOrders == CustomerCalls(MaxCartItems)

SpecOrders == InitCart /\ [][NextOrders]_vars

\* ------------------------------------------------------------------------
\* C25: over the calls a customer makes one after the other, the customer
\* never has two orders with status 'cart'; the cart getOrCreateCart has
\* returned to addToCart is the one order of the customer with status
\* 'cart', an order without items has total price 0 as when created, and
\* once addToCart has returned success the item it added belongs to that
\* cart.
\* ------------------------------------------------------------------------
CartsOf(customerId) ==
  {k \in DOMAIN orders : orders[k].customer_id = customerId /\ orders[k].status = "cart"}

HasCart(s) ==
  LET afterCart == {"item", "configuration", "total"}
  IN  /\ session[s].op = "addToCart"
      /\ \/ session[s].pc \in afterCart
         \/ session[s].pc = "done" /\ session[s].failed \in afterCart
         \/ Returned(s, "addToCart") /\ session[s].result.success

OfferedOptions(partTypeId, currentSelections) ==
  {o \in DOMAIN partOptions :
      /\ partOptions[o].part_type_id = partTypeId
      /\ partOptions[o].active
      /\ \A k \in DOMAIN currentSelections : ~IncompatiblePair(o, currentSelections[k])}

ExactAvailableOptions ==
  (pc = "done" /\ call.op = "getAvailableOptions") =>
     LET offered == OfferedOptions(call.partTypeId, call.currentSelections)
     IN  /\ idsOf(result) = offered
         /\ Len(result) = Cardinality(offered)
         /\ \A k \in DOMAIN result :
               result[k].inventory =
                  IF Len(inventory[result[k].id]) > 0
                    THEN inventory[result[k].id][1]
                    ELSE InventoryRow(0, FALSE)

\* ------------------------------------------------------------------------
\* C27: every pair validateConfiguration reports as incompatible has an
\* edge of an active rule, in one direction or the other, and every active
\* option of the part type that getAvailableOptions leaves out has an edge
\* of an active rule with a current selection: the edges of inactive rules
\* alone never count.
\* ------------------------------------------------------------------------
OnlyActiveRulesCount ==
  /\ (ValidateDone /\ IsIncompatible) =>
        \A k \in DOMAIN result.incompatibilities :
           IncompatiblePair(result.incompatibilities[k].optionA,
                            result.incompatibilities[k].optionB)
  /\ (pc = "done" /\ call.op = "getAvailableOptions") =>
        \A o \in idsOf(optionsOfPartType(call.partTypeId)) \ idsOf(result) :
           \E k \in DOMAIN call.currentSelections :
              IncompatiblePair(o, call.currentSelections[k])

\* ------------------------------------------------------------------------
\* C28: in every state reached through updateInventoryFromOrder calls from
\* records with quantity >= 0, every inventory record has quantity >= 0.
\* ------------------------------------------------------------------------
QuantityNeverNegative ==
  \A o \in DOMAIN inventory :
     \A k \in DOMAIN inventory[o] : inventory[o][k].quantity >= 0

\* ------------------------------------------------------------------------
\* C29: when the current selections pass the compatibility gate of
\* validateConfiguration, the selections with any one option that
\* getAvailableOptions has returned for them added pass it too.
\* ------------------------------------------------------------------------
ResolverValidatorAgree ==
  (/\ pc = "done"
   /\ call.op = "getAvailableOptions"
   /\ Len(Incompatibilities(call.currentSelections)) = 0) =>
     \A o \in idsOf(result) :
        Len(Incompatibilities(Append(call.currentSelections, o))) = 0

\* ------------------------------------------------------------------------
\* Specification of concurrent checkouts: two calls of checkout, each of
\* one of the two carts, interleaved at their store accesses
\* ------------------------------------------------------------------------
NextPayment ==
  \/ \E s \in Sessions, cartId \in Sessions,
        shipping \in ShippingDetails, payment \in PaymentDetails :
        session[s].op = "none" /\ checkout(s, cartId, shipping, payment)
  \/ \E s \in Sessions : checkout_cart(s)
  \/ \E s \in Sessions : checkout_items(s)
  \/ \E s \in Sessions : verifyInventoryForCart_items(s)
  \/ \E s \in Sessions : verifyInventoryForCart_configurations(s)
  \/ \E s \in Sessions : verifyInventoryForCart_inventory(s)
  \/ \E s \in Sessions : checkout_update(s)

SpecPayment == InitCheckout /\ [][NextPayment]_vars

\* ------------------------------------------------------------------------
\* C30: of the checkout calls on one cart, at most one has asked for the
\* payment and at most one has returned success.
\* ------------------------------------------------------------------------
CheckoutsOf(cartId) ==
  {s \in Sessions : session[s].op = "checkout" /\ session[s].args.cartId = cartId}

PaidAtMostOnce ==
  \A cartId \in DOMAIN orders :
     /\ Cardinality({s \in CheckoutsOf(cartId) : session[s].paymentResult # <<>>}) <= 1
     /\ Cardinality({s \in CheckoutsOf(cartId) :
                       Returned(s, "checkout") /\ session[s].result.success}) <= 1

=============================================================================
